---- MODULE Spec2Model ----
(***************************************************************************)
(* A model of result.py: the two-stage stratified split of                 *)
(* get_data_loaders, the epoch loop of train_validate with its checkpoint  *)
(* and patience logic, the learning-rate grid search of find_best_lr, the  *)
(* scoring function validate, the evaluator test and the main script that  *)
(* strings them together.                                                  *)
(*                                                                         *)
(* Tensors are abstracted to what the control flow reads: a loss is an     *)
(* integer, a parameter tensor is the tag (model instance, number of       *)
(* training epochs applied), a quotient is the pair numerator/denominator. *)
(***************************************************************************)
EXTENDS Integers, Sequences, FiniteSets, TLC

\* ---------------------------------------------------------------- bounds
MaxEpochs == 3      \* --epochs ranges over 0..MaxEpochs
MaxPatience == 2    \* --patience ranges over 1..MaxPatience
MaxLr == 2          \* lr_values has 1..MaxLr candidates
MaxBatches == 2     \* each loader yields 1..MaxBatches batches
MaxValLoss == 1     \* ordinary losses are 0..MaxValLoss
MaxPerClass == 3    \* images per class directory
MaxImages == 6      \* images in the whole dataset
SplitDen == 4       \* split fractions are k/SplitDen
MaxTest == 3        \* samples in the test set handed to test()
MaxBatchSize == 2   \* --batch_size of the test loader

\* ------------------------------------------------------- program constants
NumClasses == 3     \* the three class directories / AnimalModel(3, ...)

\* best_loss = 1e+20 of train_validate.  The model's loss scale is
\* 0..MaxValLoss, and InitBest stands for 1e+20 and for every loss that is
\* not strictly below it (a larger float, inf, NaN): all of them take the
\* else-branch of `val_loss < best_loss`, since best_loss never exceeds 1e+20.
InitBest == MaxValLoss + 1

VARIABLES
    \* command line / loaders
    epochs, patience, verbose, transfer_learning, lr_values, nb_train, nb_val,
    \* script position, the model object, the checkpoint file
    pc, error, caller, inv, net, file,
    \* find_best_lr
    cand, fbl_best_loss, best_lr, val_score, scores,
    \* train_validate
    epoch, best_loss, counter, learning_rate, optimizer, used, hist, saved, stopped,
    \* get_data_loaders
    sp_pc, n_cats, n_dogs, n_pandas, val_split, test_split,
    dev_index, test_index, train_index, val_index,
    train_images, val_images, test_images,
    \* test
    t_pc, testloader, t_batch, correct, total, accuracy

cfgVars == <<epochs, patience, verbose, transfer_learning, lr_values, nb_train, nb_val>>
fblVars == <<cand, fbl_best_loss, best_lr, val_score, scores>>
tvVars == <<epoch, best_loss, counter, learning_rate, optimizer, used, hist, saved, stopped>>
pipeVars == <<pc, error, caller, inv, net, file>>
splitVars == <<sp_pc, n_cats, n_dogs, n_pandas, val_split, test_split,
               dev_index, test_index, train_index, val_index,
               train_images, val_images, test_images>>
testVars == <<t_pc, testloader, t_batch, correct, total, accuracy>>
vars == <<cfgVars, fblVars, tvVars, pipeVars, splitVars, testVars>>

\* ---------------------------------------------------------------- helpers
RECURSIVE SeqSum(_)
SeqSum(s) == IF s = <<>> THEN 0 ELSE Head(s) + SeqSum(Tail(s))

RECURSIVE SetSum(_, _)
SetSum(f, S) == IF S = {} THEN 0
                ELSE LET x == CHOOSE y \in S : TRUE IN f[x] + SetSum(f, S \ {x})

SetMin(S) == CHOOSE x \in S : \A y \in S : x <= y

RECURSIVE Perms(_)
Perms(S) == IF S = {} THEN {<<>>}
            ELSE UNION {{<<x>> \o p : p \in Perms(S \ {x})} : x \in S}

Range(s) == {s[i] : i \in 1..Len(s)}

\* ------------------------------------------------------------ AnimalModel
\* The model object: the mode flag and requires_grad of feature_extractor,
\* the number of optimizer epochs its weights have absorbed (fe), whether its
\* batch-norm running statistics have been touched by data (bn), and the
\* classifier head's weights, tagged by the instance that initialised them
\* and the number of training epochs applied to them.
NoNet == [fe_training |-> FALSE, fe_grad |-> FALSE, fe |-> 0, bn |-> FALSE,
          head_inv |-> 0, head_n |-> 0]

AnimalModelUnfrozen(id, transfer) ==
    [fe_training |-> TRUE, fe_grad |-> TRUE, fe |-> 0, bn |-> TRUE,
     head_inv |-> id, head_n |-> 0]

\* __init__: with transfer the extractor is put in eval() and its parameters
\* get requires_grad = False; the dry run of _get_conv_output then forwards
\* one random input, which updates the running statistics only in train mode.
AnimalModel(id, transfer) ==
    [fe_training |-> ~transfer, fe_grad |-> ~transfer, fe |-> 0, bn |-> ~transfer,
     head_inv |-> id, head_n |-> 0]

\* forward(): a module in training mode updates its running statistics.
Forward(n) == [n EXCEPT !.bn = n.bn \/ n.fe_training]

\* The optimizer steps of one pass over the training batches: the head always
\* moves; the extractor moves only where requires_grad holds.
OptimizerSteps(n) ==
    [n EXCEPT !.head_n = @ + 1, !.fe = IF n.fe_grad THEN @ + 1 ELSE @]

NoFile == [exists |-> FALSE, fe |-> 0, bn |-> FALSE, head_inv |-> 0, head_n |-> 0]
\* A checkpoint left at best_model_path by an earlier run of the script.
StaleFile == [exists |-> TRUE, fe |-> 0, bn |-> FALSE, head_inv |-> 0, head_n |-> 0]

\* torch.save(net.state_dict(), best_model_path)
StateDict(n) == [exists |-> TRUE, fe |-> n.fe, bn |-> n.bn,
                 head_inv |-> n.head_inv, head_n |-> n.head_n]

\* net.load_state_dict(torch.load(best_model_path)): values only, not modes.
LoadStateDict(n, f) == [n EXCEPT !.fe = f.fe, !.bn = f.bn,
                                 !.head_inv = f.head_inv, !.head_n = f.head_n]

\* ------------------------------------------------------ optimizer/scheduler
NoOptimizer == [lr |-> 0, decays |-> 0]
\* torch.optim.AdamW(net.parameters(), lr=learning_rate) + ExponentialLR: the
\* learning rate in effect is lr * gamma^decays.
AdamW(lr) == [lr |-> lr, decays |-> 0]
SchedulerStep(o) == [o EXCEPT !.decays = @ + 1]

\* ----------------------------------------------------------------- validate
NoScore == [ok |-> FALSE, inf |-> FALSE, num |-> 0, den |-> 1]
Infinity == [ok |-> TRUE, inf |-> TRUE, num |-> 0, den |-> 1]

\* validate(): sums the per-batch losses and returns val_loss / i, where i is
\* the index of the last batch; a zero divisor raises ZeroDivisionError.
Validate(batch_losses) ==
    LET i == Len(batch_losses) - 1 IN
    IF i = 0 THEN NoScore
    ELSE [ok |-> TRUE, inf |-> FALSE, num |-> SeqSum(batch_losses), den |-> i]

BetterOrEqual(a, b) == b.inf \/ a.num * b.den <= b.num * a.den

\* `val_loss < best_loss` of find_best_lr, on quotients with positive divisors.
Better(a, b) == b.inf \/ a.num * b.den < b.num * a.den

ImprovesOrTies(v, best) == v <= best

\* `val_loss < best_loss` of train_validate.
Improves(v, best) == v < best

BatchLosses(n) == [1..n -> 0..MaxValLoss]

\* ------------------------------------------------ idle values of each part
TvIdle ==
    /\ epoch = 0 /\ best_loss = InitBest /\ counter = 0 /\ learning_rate = 0
    /\ optimizer = NoOptimizer /\ used = NoOptimizer
    /\ hist = <<>> /\ saved = <<>> /\ stopped = FALSE

PipeIdle ==
    /\ epochs = 0 /\ patience = 1 /\ verbose = FALSE /\ transfer_learning = FALSE
    /\ lr_values = <<>> /\ nb_train = 1 /\ nb_val = 1
    /\ pc = "idle" /\ error = "none" /\ caller = "none" /\ inv = 0
    /\ net = NoNet /\ file = NoFile
    /\ cand = 1 /\ fbl_best_loss = Infinity /\ best_lr = 0
    /\ val_score = NoScore /\ scores = <<>>
    /\ TvIdle

SplitIdle ==
    /\ sp_pc = "idle" /\ n_cats = 0 /\ n_dogs = 0 /\ n_pandas = 0
    /\ val_split = 0 /\ test_split = 0
    /\ dev_index = <<>> /\ test_index = <<>> /\ train_index = <<>> /\ val_index = <<>>
    /\ train_images = <<>> /\ val_images = <<>> /\ test_images = <<>>

TestIdle ==
    /\ t_pc = "idle" /\ testloader = <<>> /\ t_batch = 1
    /\ correct = 0 /\ total = 0 /\ accuracy = NoScore

\* =========================================================================
\* The script from the call of find_best_lr to the end of the final test.
\* =========================================================================

\* The state in which main calls find_best_lr: any command line, any loader
\* sizes, and a best_model_path that is either absent or left by an old run.
\* best_lr = 0 stands for None.
Init ==
    /\ epochs \in 0..MaxEpochs
    /\ patience \in 1..MaxPatience
    /\ verbose \in BOOLEAN
    /\ transfer_learning \in BOOLEAN
    /\ lr_values \in {[i \in 1..n |-> i] : n \in 1..MaxLr}
    /\ nb_train \in 1..MaxBatches
    /\ nb_val \in 1..MaxBatches
    /\ file \in {NoFile, StaleFile}
    /\ pc = "fbl" /\ error = "none" /\ caller = "none" /\ inv = 0 /\ net = NoNet
    /\ cand = 1 /\ fbl_best_loss = Infinity /\ best_lr = 0
    /\ val_score = NoScore /\ scores = <<>>
    /\ TvIdle /\ SplitIdle /\ TestIdle

\* The entry of train_validate: its locals as lines 265-267 set them.
EnterTrainValidate(lr) ==
    /\ epoch' = 0 /\ best_loss' = InitBest /\ counter' = 0
    /\ learning_rate' = lr
    /\ optimizer' = NoOptimizer /\ used' = NoOptimizer
    /\ hist' = <<>> /\ saved' = <<>> /\ stopped' = FALSE
    /\ pc' = "tv_epoch"

\* find_best_lr, loop head with a candidate left: a fresh model, then the
\* call of train_validate with this candidate's learning rate.
FblIter ==
    /\ pc = "fbl" /\ cand <= Len(lr_values)
    /\ inv' = inv + 1
    /\ net' = AnimalModel(inv + 1, transfer_learning)
    /\ caller' = "fbl"
    /\ EnterTrainValidate(lr_values[cand])
    /\ UNCHANGED <<cfgVars, fblVars, error, file, splitVars, testVars>>

\* find_best_lr, loop exhausted: return best_lr to main.
FblReturn ==
    /\ pc = "fbl" /\ cand > Len(lr_values)
    /\ pc' = "main"
    /\ UNCHANGED <<cfgVars, fblVars, tvVars, error, caller, inv, net, file,
                   splitVars, testVars>>

\* train_validate, epoch loop head: criterion, optimizer and scheduler are
\* constructed anew in every epoch.
TvEpoch ==
    /\ pc = "tv_epoch" /\ epoch < epochs
    /\ optimizer' = AdamW(learning_rate)
    /\ pc' = "tv_train"
    /\ UNCHANGED <<cfgVars, fblVars, epoch, best_loss, counter, learning_rate, used,
                   hist, saved, stopped, error, caller, inv, net, file,
                   splitVars, testVars>>

\* train_validate, epoch budget used up: falls out of the loop and returns.
TvFinish ==
    /\ pc = "tv_epoch" /\ epoch >= epochs
    /\ pc' = "tv_ret"
    /\ UNCHANGED <<cfgVars, fblVars, tvVars, error, caller, inv, net, file,
                   splitVars, testVars>>

\* The training pass: every batch is forwarded and stepped with the current
\* optimizer.  `used` records the optimizer state those steps ran with.
TvTrain ==
    /\ pc = "tv_train"
    /\ ~(verbose /\ nb_train - 1 = 0)
    /\ net' = OptimizerSteps(Forward(net))
    /\ used' = optimizer
    /\ pc' = "tv_sched"
    /\ UNCHANGED <<cfgVars, fblVars, epoch, best_loss, counter, learning_rate,
                   optimizer, hist, saved, stopped, error, caller, inv, file,
                   splitVars, testVars>>

\* The verbose print divides train_loss by the last batch index i: with a
\* single training batch i = 0 and the float division raises.
TvTrainPrintError ==
    /\ pc = "tv_train"
    /\ verbose /\ nb_train - 1 = 0
    /\ net' = OptimizerSteps(Forward(net))
    /\ used' = optimizer
    /\ pc' = "error" /\ error' = "ZeroDivisionError: train_loss / i"
    /\ UNCHANGED <<cfgVars, fblVars, epoch, best_loss, counter, learning_rate,
                   optimizer, hist, saved, stopped, caller, inv, file,
                   splitVars, testVars>>

\* scheduler.step(), once per epoch, before validation.
TvSched ==
    /\ pc = "tv_sched"
    /\ optimizer' = SchedulerStep(optimizer)
    /\ pc' = "tv_val"
    /\ UNCHANGED <<cfgVars, fblVars, epoch, best_loss, counter, learning_rate, used,
                   hist, saved, stopped, error, caller, inv, net, file,
                   splitVars, testVars>>

\* The validation pass of one epoch with summed loss v, then the checkpoint /
\* patience decision.  The model is never switched to eval(), so the forward
\* passes run in whatever mode the modules are in.
TvValidate(v) ==
    /\ net' = Forward(net)
    /\ hist' = Append(hist, v)
    /\ IF Improves(v, best_loss)
       THEN /\ file' = StateDict(Forward(net))
            /\ best_loss' = v
            /\ saved' = Append(saved, TRUE)
            /\ epoch' = epoch + 1
            /\ pc' = "tv_epoch"
            /\ UNCHANGED <<counter, stopped>>
       ELSE /\ counter' = counter + 1
            /\ saved' = Append(saved, FALSE)
            /\ IF counter + 1 >= patience
               THEN /\ stopped' = TRUE
                    /\ pc' = "tv_ret"
                    /\ UNCHANGED epoch
               ELSE /\ epoch' = epoch + 1
                    /\ pc' = "tv_epoch"
                    /\ UNCHANGED stopped
            /\ UNCHANGED <<file, best_loss>>

TvVal ==
    /\ pc = "tv_val"
    /\ ~(verbose /\ nb_val - 1 = 0)
    /\ \E v \in 0..InitBest : TvValidate(v)
    /\ UNCHANGED <<cfgVars, fblVars, learning_rate, optimizer, used,
                   error, caller, inv, splitVars, testVars>>

\* The verbose print divides val_loss by the last validation batch index.
TvValPrintError ==
    /\ pc = "tv_val"
    /\ verbose /\ nb_val - 1 = 0
    /\ net' = Forward(net)
    /\ pc' = "error" /\ error' = "ZeroDivisionError: val_loss / i"
    /\ UNCHANGED <<cfgVars, fblVars, tvVars, caller, inv, file, splitVars, testVars>>

\* net.load_state_dict(torch.load(args.best_model_path)) after train_validate
\* has returned, in find_best_lr and in main alike; train_validate's locals
\* are gone.
LoadBest ==
    /\ pc = "tv_ret" /\ file.exists
    /\ net' = LoadStateDict(net, file)
    /\ pc' = IF caller = "fbl" THEN "fbl_validate" ELSE "main_test"
    /\ epoch' = 0 /\ best_loss' = InitBest /\ counter' = 0 /\ learning_rate' = 0
    /\ optimizer' = NoOptimizer /\ used' = NoOptimizer
    /\ hist' = <<>> /\ saved' = <<>> /\ stopped' = FALSE
    /\ UNCHANGED <<cfgVars, fblVars, error, caller, inv, file, splitVars, testVars>>

\* torch.load of a path that does not exist raises.
LoadBestError ==
    /\ pc = "tv_ret" /\ ~file.exists
    /\ pc' = "error" /\ error' = "FileNotFoundError: best_model_path"
    /\ UNCHANGED <<cfgVars, fblVars, tvVars, caller, inv, net, file,
                   splitVars, testVars>>

\* find_best_lr: score the reloaded model with validate() and keep the
\* candidate if its score is lower than the best so far.
FblScore ==
    /\ pc = "fbl_validate"
    /\ \E bl \in BatchLosses(nb_val) :
         LET val_loss == Validate(bl) IN
         /\ val_loss.ok
         /\ val_score' = val_loss
         /\ scores' = Append(scores, SeqSum(bl))
         /\ IF Better(val_loss, fbl_best_loss)
            THEN fbl_best_loss' = val_loss /\ best_lr' = lr_values[cand]
            ELSE UNCHANGED <<fbl_best_loss, best_lr>>
    /\ net' = Forward(net)
    /\ cand' = cand + 1
    /\ pc' = "fbl"
    /\ UNCHANGED <<cfgVars, tvVars, error, caller, inv, file, splitVars, testVars>>

\* validate() raises on its return line.
FblScoreError ==
    /\ pc = "fbl_validate"
    /\ \E bl \in BatchLosses(nb_val) : ~Validate(bl).ok
    /\ net' = Forward(net)
    /\ pc' = "error" /\ error' = "ZeroDivisionError: validate"
    /\ UNCHANGED <<cfgVars, fblVars, tvVars, caller, inv, file, splitVars, testVars>>

\* main after the grid search: a fresh model trained with best_lr; the locals
\* of find_best_lr are gone, only the returned best_lr is left.
MainTrain ==
    /\ pc = "main"
    /\ inv' = inv + 1
    /\ net' = AnimalModel(inv + 1, transfer_learning)
    /\ caller' = "main"
    /\ EnterTrainValidate(best_lr)
    /\ cand' = 1 /\ fbl_best_loss' = Infinity /\ val_score' = NoScore /\ scores' = <<>>
    /\ UNCHANGED <<cfgVars, best_lr, error, file, splitVars, testVars>>

\* main: test(net, testloader, device) on the reloaded model; its forward
\* passes are all it does to the model (its arithmetic is modelled below).
MainTest ==
    /\ pc = "main_test"
    /\ net' = Forward(net)
    /\ pc' = "done"
    /\ UNCHANGED <<cfgVars, fblVars, tvVars, error, caller, inv, file,
                   splitVars, testVars>>

Next ==
    \/ FblIter \/ FblReturn
    \/ TvEpoch \/ TvFinish \/ TvTrain \/ TvTrainPrintError \/ TvSched
    \/ TvVal \/ TvValPrintError
    \/ LoadBest \/ LoadBestError
    \/ FblScore \/ FblScoreError
    \/ MainTrain \/ MainTest

Spec == Init /\ [][Next]_vars

\* =========================================================================
\* Properties of the training script
\* =========================================================================
InTrainValidate == pc \in {"tv_epoch", "tv_train", "tv_sched", "tv_val", "tv_ret"}
FblReturned == pc = "main"

\* The best validation loss before epoch k (1-based) of a loss history: the
\* least of the earlier losses and of the initial best.
BestBefore(h, k) == SetMin({InitBest} \cup {h[j] : j \in 1..(k - 1)})

EpochImproved(h, k) == h[k] < BestBefore(h, k)

\* The number of consecutive non-improving epochs at the end of h[1..k].
RECURSIVE Stalls(_, _)
Stalls(h, k) == IF k = 0 \/ EpochImproved(h, k) THEN 0 ELSE 1 + Stalls(h, k - 1)

\* The first epoch (1-based) that attained the least loss of the history.
EarliestMin(h) == SetMin({k \in 1..Len(h) : \A j \in 1..Len(h) : h[k] <= h[j]})

\* C2: the stall counter is 0 after an improving epoch and counts the
\* consecutive non-improving epochs otherwise, and train_validate has stopped
\* early exactly when `patience` consecutive epochs have not improved.
C2_StallCounterResets ==
    InTrainValidate =>
        /\ counter = Stalls(hist, Len(hist))
        /\ stopped <=> Stalls(hist, Len(hist)) >= patience

\* C3: an epoch writes the checkpoint exactly when its validation loss is
\* strictly below the best of the earlier epochs (initially 1e+20), so the
\* checkpoint this invocation has written holds the parameters of the first
\* epoch that attained the least loss so far: ties and worse epochs never
\* overwrite it.
C3_CheckpointIsEarliestBest ==
    InTrainValidate =>
        /\ Len(saved) = Len(hist)
        /\ \A k \in 1..Len(hist) : saved[k] <=> EpochImproved(hist, k)
        /\ (file.exists /\ file.head_inv = inv) =>
              /\ file.head_n = EarliestMin(hist)
              /\ hist[file.head_n] = best_loss

\* An equal loss and a higher loss both came after the epoch whose checkpoint
\* is on disk.
C3_Witness ==
    /\ pc = "tv_ret" /\ Len(hist) = 3
    /\ file.head_inv = inv /\ file.head_n = 1
    /\ hist[2] = hist[1] /\ hist[3] > hist[1]

\* scores[i] is the validation loss of candidate i's reloaded model summed
\* over the nb_val batches; its mean loss is scores[i] / nb_val.
MeanLess(a, b) == a * nb_val < b * nb_val

\* The first candidate whose mean validation loss no other candidate beats.
FirstArgMin(sc) ==
    SetMin({i \in 1..Len(sc) : \A j \in 1..Len(sc) : ~MeanLess(sc[j], sc[i])})

\* C4: find_best_lr returns the candidate whose reloaded checkpoint has the
\* lowest validation loss, and among equal lowest losses the first evaluated.
C4_FirstLowestCandidate ==
    FblReturned =>
        /\ Len(scores) = Len(lr_values)
        /\ best_lr = lr_values[FirstArgMin(scores)]

\* Two candidates tied on the lowest loss and the first one was returned.
C4_Witness ==
    /\ pc = "main" /\ Len(scores) = 2
    /\ scores[1] = scores[2]
    /\ best_lr = lr_values[1]

\* C5: when find_best_lr returns, the checkpoint file holds a checkpoint
\* written by the run of the last candidate of lr_values.
C5_FileIsLastCandidates ==
    pc = "main" => file.exists /\ file.head_inv = Len(lr_values)

\* C6: with transfer learning the feature extractor is in evaluation mode in
\* every state, and a training pass changes the classifier head only: neither
\* the extractor's parameters nor its running statistics move.
C6_FrozenExtractor ==
    [][transfer_learning =>
         /\ ~net'.fe_training
         /\ pc = "tv_train" =>
               /\ net'.fe = net.fe /\ net'.bn = net.bn
               /\ net'.head_n = net.head_n + 1]_vars

\* With transfer learning the script ran to the end of test() on a model
\* whose head was trained and reloaded.
C6_Witness ==
    /\ transfer_learning /\ pc = "done"
    /\ net.head_inv = inv /\ net.head_n > 0 /\ net.fe = 0 /\ ~net.bn

\* C8: the optimizer steps of epoch k (0-based) run with k decay steps
\* applied to learning_rate.
C8_DecayedLearningRate ==
    pc = "tv_sched" => used.lr = learning_rate /\ used.decays = epoch

\* C9: when train_validate returns, the checkpoint file exists and was
\* written by this invocation, so the reload that follows loads this model's
\* own checkpoint.
C9_ReloadsOwnCheckpoint ==
    pc = "tv_ret" => file.exists /\ file.head_inv = inv

\* C10: validate never raises and returns the sum of the batch losses
\* divided by the number of batches.
C10_ValidateReturnsMean ==
    /\ error # "ZeroDivisionError: validate"
    /\ val_score.ok =>
          val_score.num * nb_val = scores[Len(scores)] * val_score.den

\* =========================================================================
\* get_data_loaders: listing, label encoding and the two-stage split
\* =========================================================================

\* The listing: the cat paths, then the dog paths, then the panda paths.
\* A path is named by its directory and its position in that directory.
Images ==
    [i \in 1..n_cats |-> <<"cat", i>>]
      \o [i \in 1..n_dogs |-> <<"dog", i>>]
      \o [i \in 1..n_pandas |-> <<"panda", i>>]

\* labels_int: np.unique sorts the class names that occur, and a label is the
\* rank of its class name among them.
LabelsInt ==
    LET dog == IF n_cats > 0 THEN 1 ELSE 0
        panda == dog + (IF n_dogs > 0 THEN 1 ELSE 0)
    IN  [i \in 1..n_cats |-> 0] \o [i \in 1..n_dogs |-> dog]
          \o [i \in 1..n_pandas |-> panda]

\* numpy indexing of an array by an index array.
Take(arr, index) == [i \in 1..Len(index) |-> arr[index[i]]]

ClassMembers(y, c) == {i \in 1..Len(y) : y[i] = c}

\* The per-class draw sizes of a stratified draw of n_draws out of the class
\* counts: the floor of the proportional share each, the rest going to the
\* classes with the largest remainders.
ApproximateMode(y, n_draws) ==
    LET n == Len(y)
        classes == Range(y)
        share(c) == (Cardinality(ClassMembers(y, c)) * n_draws) \div n
        rest(c) == (Cardinality(ClassMembers(y, c)) * n_draws) % n
    IN  {a \in [classes -> 0..n_draws] :
           /\ \A c \in classes : a[c] \in {share(c), share(c) + 1}
           /\ SetSum(a, classes) = n_draws
           /\ \A c, d \in classes :
                (a[c] > share(c) /\ a[d] = share(d)) => rest(c) >= rest(d)}

\* next(StratifiedShuffleSplit(n_splits=1, test_size=num/den).split(x, y)):
\* the pairs (train index array, test index array) the call can return, over
\* every outcome of the seeded shuffle; the empty set when the call raises
\* (a fraction outside (0,1), a class with fewer than two members, a side
\* smaller than the number of classes).
StratifiedShuffleSplit(y, num, den) ==
    LET n == Len(y)
        n_test == (num * n + den - 1) \div den
        n_train == n - n_test
        classes == Range(y)
    IN  IF \/ n = 0
           \/ ~(0 < num /\ num < den)
           \/ n_train <= 0
           \/ \E c \in classes : Cardinality(ClassMembers(y, c)) < 2
           \/ n_train < Cardinality(classes)
           \/ n_test < Cardinality(classes)
        THEN {}
        ELSE UNION {
               {<<p, q>> : p \in Perms(Tr), q \in Perms((1..n) \ Tr)} :
                 Tr \in {T \in SUBSET (1..n) :
                          \E a \in ApproximateMode(y, n_train) :
                             \A c \in classes :
                                Cardinality(T \cap ClassMembers(y, c)) = a[c]}}

\* val_size = int(val_split * images.size).  Fractions are exact rationals
\* here, so the second split draws ceil((val_size / n_dev) * n_dev) = val_size.
ValSize == (val_split * Len(Images)) \div SplitDen

\* The directories hold any number of images each, and the two fractions are
\* any multiples of 1/SplitDen strictly between 0 and 1.
InitSplit ==
    /\ n_cats \in 0..MaxPerClass
    /\ n_dogs \in 0..MaxPerClass
    /\ n_pandas \in 0..MaxPerClass
    /\ n_cats + n_dogs + n_pandas <= MaxImages
    /\ val_split \in 1..(SplitDen - 1)
    /\ test_split \in 1..(SplitDen - 1)
    /\ sp_pc = "listed"
    /\ dev_index = <<>> /\ test_index = <<>> /\ train_index = <<>> /\ val_index = <<>>
    /\ train_images = <<>> /\ val_images = <<>> /\ test_images = <<>>
    /\ PipeIdle /\ TestIdle

\* Splitting the data in dev and test sets.
SplitDevTest ==
    /\ sp_pc = "listed"
    /\ \E r \in StratifiedShuffleSplit(LabelsInt, test_split, SplitDen) :
         /\ dev_index' = r[1]
         /\ test_index' = r[2]
         /\ test_images' = Take(Images, r[2])
    /\ sp_pc' = "dev"
    /\ UNCHANGED <<n_cats, n_dogs, n_pandas, val_split, test_split,
                   train_index, val_index, train_images, val_images,
                   cfgVars, fblVars, tvVars, pipeVars, testVars>>

SplitDevTestError ==
    /\ sp_pc = "listed"
    /\ StratifiedShuffleSplit(LabelsInt, test_split, SplitDen) = {}
    /\ sp_pc' = "error"
    /\ UNCHANGED <<n_cats, n_dogs, n_pandas, val_split, test_split,
                   dev_index, test_index, train_index, val_index,
                   train_images, val_images, test_images,
                   cfgVars, fblVars, tvVars, pipeVars, testVars>>

\* Splitting the data in train and val sets: the second split runs on the dev
\* arrays, with val_size / dev_images.size as its fraction, and the index
\* arrays it returns are then applied to `images`.
SplitTrainVal ==
    /\ sp_pc = "dev"
    /\ \E r \in StratifiedShuffleSplit(Take(LabelsInt, dev_index),
                                       ValSize, Len(dev_index)) :
         /\ train_index' = r[1]
         /\ val_index' = r[2]
         /\ train_images' = Take(Images, r[1])
         /\ val_images' = Take(Images, r[2])
    /\ sp_pc' = "done"
    /\ UNCHANGED <<n_cats, n_dogs, n_pandas, val_split, test_split,
                   dev_index, test_index, test_images,
                   cfgVars, fblVars, tvVars, pipeVars, testVars>>

SplitTrainValError ==
    /\ sp_pc = "dev"
    /\ StratifiedShuffleSplit(Take(LabelsInt, dev_index), ValSize, Len(dev_index)) = {}
    /\ sp_pc' = "error"
    /\ UNCHANGED <<n_cats, n_dogs, n_pandas, val_split, test_split,
                   dev_index, test_index, train_index, val_index,
                   train_images, val_images, test_images,
                   cfgVars, fblVars, tvVars, pipeVars, testVars>>

NextSplit ==
    \/ SplitDevTest \/ SplitDevTestError
    \/ SplitTrainVal \/ SplitTrainValError

SpecSplit == InitSplit /\ [][NextSplit]_vars

\* C1: the three partitions are pairwise disjoint and together they are the
\* whole listing.
C1_PartitionsDisjointAndComplete ==
    sp_pc = "done" =>
        /\ Range(train_images) \cap Range(val_images) = {}
        /\ Range(train_images) \cap Range(test_images) = {}
        /\ Range(val_images) \cap Range(test_images) = {}
        /\ Range(train_images) \cup Range(val_images) \cup Range(test_images)
             = Range(Images)

\* =========================================================================
\* test: top-1 accuracy over the test loader
\* =========================================================================

\* A test sample as test() sees it: its label and the class torch.max picks
\* from the model's output for it.
TestSamples == [label : 0..(NumClasses - 1), predicted : 0..(NumClasses - 1)]

\* A DataLoader without shuffling: consecutive batches of batch_size samples,
\* the last one holding what is left.
RECURSIVE Chunk(_, _)
Chunk(s, b) ==
    IF s = <<>> THEN <<>>
    ELSE IF Len(s) <= b THEN <<s>>
    ELSE <<SubSeq(s, 1, b)>> \o Chunk(SubSeq(s, b + 1, Len(s)), b)

\* (predicted == labels).sum().item()
NumCorrect(batch) ==
    Cardinality({i \in 1..Len(batch) : batch[i].predicted = batch[i].label})

\* labels.size(0)
BatchSize(batch) == Len(batch)

InitTest ==
    /\ \E n \in 0..MaxTest, b \in 1..MaxBatchSize :
         \E samples \in [1..n -> TestSamples] : testloader = Chunk(samples, b)
    /\ t_pc = "loop" /\ t_batch = 1
    /\ correct = 0 /\ total = 0 /\ accuracy = NoScore
    /\ PipeIdle /\ SplitIdle

TestBatchOverwrite ==
    /\ t_pc = "loop" /\ t_batch <= Len(testloader)
    /\ total' = total + BatchSize(testloader[t_batch])
    /\ correct' = NumCorrect(testloader[t_batch])
    /\ t_batch' = t_batch + 1
    /\ UNCHANGED <<t_pc, testloader, accuracy,
                   cfgVars, fblVars, tvVars, pipeVars, splitVars>>

\* One iteration of `for data in testloader`.
TestBatch ==
    /\ t_pc = "loop" /\ t_batch <= Len(testloader)
    /\ total' = total + BatchSize(testloader[t_batch])
    /\ correct' = correct + NumCorrect(testloader[t_batch])
    /\ t_batch' = t_batch + 1
    /\ UNCHANGED <<t_pc, testloader, accuracy,
                   cfgVars, fblVars, tvVars, pipeVars, splitVars>>

\* The print after the loop: 100 * correct / total.
TestPrint ==
    /\ t_pc = "loop" /\ t_batch > Len(testloader)
    /\ total # 0
    /\ accuracy' = [ok |-> TRUE, inf |-> FALSE, num |-> 100 * correct, den |-> total]
    /\ t_pc' = "done"
    /\ UNCHANGED <<testloader, t_batch, correct, total,
                   cfgVars, fblVars, tvVars, pipeVars, splitVars>>

\* With an empty loader total is 0 and the division raises.
TestPrintError ==
    /\ t_pc = "loop" /\ t_batch > Len(testloader)
    /\ total = 0
    /\ t_pc' = "error"
    /\ UNCHANGED <<testloader, t_batch, correct, total, accuracy,
                   cfgVars, fblVars, tvVars, pipeVars, splitVars>>

NextTest == TestBatch \/ TestPrint \/ TestPrintError

SpecTest == InitTest /\ [][NextTest]_vars

RECURSIVE Flatten(_)
Flatten(batches) ==
    IF batches = <<>> THEN <<>> ELSE Head(batches) \o Flatten(Tail(batches))

\* C7: on a test set of n > 0 samples of which the prediction equals the
\* label on exactly k, whatever the batches, test() has counted correct = k
\* and total = n and reports 100 * k / n.
C7_AccuracyIsPercentCorrect ==
    LET all == Flatten(testloader)
        n == Len(all)
        k == Cardinality({i \in 1..n : all[i].predicted = all[i].label})
    IN  (n > 0 /\ t_pc # "loop") =>
            /\ t_pc = "done"
            /\ correct = k /\ total = n
            /\ accuracy.ok /\ accuracy.num * n = 100 * k * accuracy.den

\* A test set in several batches, some of it right and some of it wrong, with
\* right answers in more than one batch.
C7_Witness ==
    /\ t_pc = "done" /\ Len(testloader) >= 2
    /\ 0 < correct /\ correct < total
    /\ NumCorrect(testloader[1]) > 0 /\ NumCorrect(testloader[2]) > 0
====
